---- MODULE Spec2Model ----
(***************************************************************************)
(* A model of util.py of the FontClassificationTool: the batch             *)
(* normalisation of font darkness and width into bands 1..10               *)
(* (group_by_attributes), the blocklist test (is_blocklisted) and the CSV  *)
(* store of classification records (save_csv, read_csv).                   *)
(*                                                                         *)
(* Text is modelled as a sequence of one-character strings, so that the    *)
(* substring test, the CSV quoting and the parsing of integers work on     *)
(* characters as the code does.  Measured values (Python floats) are       *)
(* modelled as exact fractions <<numerator, denominator>> in lowest terms: *)
(* a band next to a bucket boundary may differ from the float result, the  *)
(* order of the values and the results at the two extremes do not.         *)
(***************************************************************************)
EXTENDS Integers, Sequences, FiniteSets, TLC

VARIABLES
  pc,          \* position of the classification run
  input,       \* the font identifiers handed to the run
  fonts,       \* group_by_attributes: its argument, the list of font names
  i,           \* group_by_attributes: index of the next font to measure
  darkness,    \* group_by_attributes: dict name -> darkness
  width,       \* group_by_attributes: dict name -> width
  min_dark, max_dark, min_width, max_width,   \* the extremes, once taken
  weights,     \* group_by_attributes: dict name -> weight band
  widths,      \* group_by_attributes: dict name -> width band
  error,       \* the exception that ended the run, or "none"
  metadata,    \* dict gfn -> classification record (in memory)
  cleanup,     \* save_csv: the cleanup_for_publishing flag of the last save
  written,     \* save_csv: the rows handed to the csv writer by the last save
  file,        \* the store file, a sequence of characters
  loaded       \* read_csv: its outcome

vars == <<pc, input, fonts, i, darkness, width, min_dark, max_dark, min_width,
          max_width, weights, widths, error, metadata, cleanup, written, file,
          loaded>>

batchVars == <<input, fonts, i, darkness, width, min_dark, max_dark, min_width,
               max_width, weights, widths, error>>

storeVars == <<cleanup, written, file, loaded>>

----------------------------------------------------------------------------
(* Bounds *)

\* The engine's text extents are floats; the model offers them in half
\* pixels, 0 .. MaxHalfWidth halves wide.
MaxHalfWidth == 4

\* The largest number of font identifiers handed to one run.
MaxBatch == 3

----------------------------------------------------------------------------
(* Generic helpers *)

EmptyMap == [x \in {} |-> 0]

Range(s) == {s[k] : k \in DOMAIN s}

RECURSIVE GCD(_, _)
GCD(a, b) == IF b = 0 THEN a ELSE GCD(b, a % b)

\* The fraction n/d (d > 0) in lowest terms.
Rat(n, d) ==
  LET g == GCD(IF n < 0 THEN -n ELSE n, d)
  IN  IF n = 0 THEN <<0, 1>> ELSE <<n \div g, d \div g>>

RatSub(a, b) == Rat(a[1] * b[2] - b[1] * a[2], a[2] * b[2])
RatLess(a, b) == a[1] * b[2] < b[1] * a[2]
RatLeq(a, b) == a[1] * b[2] <= b[1] * a[2]

\* a / b for b # 0.
RatDiv(a, b) ==
  IF b[1] < 0 THEN Rat(-(a[1] * b[2]), a[2] * (-b[1]))
  ELSE Rat(a[1] * b[2], a[2] * b[1])

\* math.floor of k * a.
FloorTimes(k, a) == (k * a[1]) \div a[2]

Minimum(a, b) == IF a < b THEN a ELSE b

----------------------------------------------------------------------------
(* is_blocklisted *)

BLOCKLIST == <<
  <<"K", "u", "m", "a", "r", "O", "n", "e">>,
  <<"R", "u", "b", "i", "k", "-", "B", "l", "a", "c", "k", "I", "t", "a", "l", "i", "c">>,
  <<"R", "u", "b", "i", "k", "-", "B", "l", "a", "c", "k">>,
  <<"R", "u", "b", "i", "k", "-", "B", "o", "l", "d", "I", "t", "a", "l", "i", "c">>,
  <<"R", "u", "b", "i", "k", "-", "B", "o", "l", "d">>,
  <<"R", "u", "b", "i", "k", "-", "I", "t", "a", "l", "i", "c">>,
  <<"R", "u", "b", "i", "k", "-", "L", "i", "g", "h", "t", "I", "t", "a", "l", "i", "c">>,
  <<"R", "u", "b", "i", "k", "-", "L", "i", "g", "h", "t">>,
  <<"R", "u", "b", "i", "k", "-", "M", "e", "d", "i", "u", "m", "I", "t", "a", "l", "i", "c">>,
  <<"R", "u", "b", "i", "k", "-", "M", "e", "d", "i", "u", "m">>,
  <<"R", "u", "b", "i", "k", "-", "R", "e", "g", "u", "l", "a", "r">> >>

\* Python's `name in filename` on strings: name occurs as a substring.
StrIn(name, filename) ==
  \E k \in 0..(Len(filename) - Len(name)) :
    SubSeq(filename, k + 1, k + Len(name)) = name

\* A slip: the entry is compared with the whole file name.
is_blocklisted_exact(filename) ==
  \E k \in DOMAIN BLOCKLIST : BLOCKLIST[k] = filename

\* The loop over BLOCKLIST returns True at the first entry found in the file
\* name; falling off the end returns None, which is false where it is tested.
RECURSIVE blocklist_loop(_, _)
blocklist_loop(k, filename) ==
  IF k > Len(BLOCKLIST) THEN FALSE
  ELSE IF StrIn(BLOCKLIST[k], filename) THEN TRUE
  ELSE blocklist_loop(k + 1, filename)

is_blocklisted(filename) == blocklist_loop(1, filename)

----------------------------------------------------------------------------
(* The font files of the model *)

F_Arvo == <<"A", "r", "v", "o">>
F_LatoBold == <<"L", "a", "t", "o", "-", "B", "o", "l", "d">>
F_KumarDashOne == <<"K", "u", "m", "a", "r", "-", "O", "n", "e">>
F_RubikExtraBold ==
  <<"R", "u", "b", "i", "k", "-", "E", "x", "t", "r", "a", "B", "o", "l", "d">>
F_OflRubikBold ==
  <<"o", "f", "l", "/", "R", "u", "b", "i", "k", "-", "B", "o", "l", "d">>
F_KumarOneOutline ==
  <<"K", "u", "m", "a", "r", "O", "n", "e", "O", "u", "t", "l", "i", "n", "e">>

\* The font files a run may be given, in the order a run lists them.
FontFileList ==
  <<F_Arvo, F_OflRubikBold, F_LatoBold, F_KumarOneOutline, F_KumarDashOne,
    F_RubikExtraBold>>

FontFiles == Range(FontFileList)

----------------------------------------------------------------------------
(* compute_darkness_and_width *)

\* Alpha values of a pixel the model offers: blank and full ink.
AlphaLevels == {0, 255}

\* Heights of the text extents, in half pixels.
HalfHeights == {1, 2}

\* Heights of the reference glyph, in pixels.
XHeights == {0, 1, 2}

\* FT_New_Face's status: FT_Err_Ok, or an error.
FaceStatuses == {0, 1}

\* int(text_width), text_width given in half pixels.
IntOfHalves(h) == h \div 2

RECURSIVE SumAlpha(_, _)
SumAlpha(pixel_data, n) ==
  IF n = 0 THEN 0 ELSE pixel_data[n] + SumAlpha(pixel_data, n - 1)

\* What the engine returned for one font: the status of loading the face
\* and, for a face that loaded, the text extents, the reference glyph's
\* height and the painted surface.
Rasters ==
  { [status |-> st] : st \in FaceStatuses \ {0} }
    \cup UNION { UNION { UNION {
      { [status |-> 0, text_width |-> tw, text_height |-> th, x_height |-> xh,
         pixel_data |-> pd] :
        pd \in [1..(IntOfHalves(tw) * IntOfHalves(th)) -> AlphaLevels] } :
      xh \in XHeights } : th \in HalfHeights } : tw \in 0..MaxHalfWidth }

\* The result of compute_darkness_and_width on what the engine returned:
\* the pair, or the exception raised.
compute_darkness_and_width(r) ==
  IF r.status # 0 THEN [raised |-> "RuntimeError"]
  ELSE
    LET data_width == IntOfHalves(r.text_width)
        data_height == IntOfHalves(r.text_height)
        \* avg sums alpha/255.0 over every pixel of the surface
        avg == Rat(SumAlpha(r.pixel_data, data_width * data_height), 255)
    IN  IF data_width * data_height = 0
          THEN [raised |-> "ZeroDivisionError"]
        ELSE IF r.x_height = 0
          THEN [raised |-> "ZeroDivisionError"]
        ELSE [raised |-> "none",
              darkness |-> RatDiv(avg, <<data_width * data_height, 1>>),
              width |-> RatDiv(Rat(r.text_width, 2), <<r.x_height, 1>>)]

----------------------------------------------------------------------------
(* find_extremes and the normalisation of group_by_attributes *)

RatMin(S) == CHOOSE m \in S : \A v \in S : RatLeq(m, v)
RatMax(S) == CHOOSE m \in S : \A v \in S : RatLeq(v, m)

\* A slip: the two results in the other order.
find_extremes_swapped(d) == <<RatMax(Range(d)), RatMin(Range(d))>>

\* min and max of the dict's values (a non-empty dict).
find_extremes(d) == <<RatMin(Range(d)), RatMax(Range(d))>>

\* A slip: the clamp to 10 left out.
band_unclamped(v, lo, range) == 1 + FloorTimes(10, RatDiv(RatSub(v, lo), range))

\* A slip: the offset of 1 left out.
band_from_zero(v, lo, range) ==
  Minimum(10, FloorTimes(10, RatDiv(RatSub(v, lo), range)))

\* min(10, int(1 + floor(10 * ((v - lo) / range))))
band(v, lo, range) ==
  Minimum(10, 1 + FloorTimes(10, RatDiv(RatSub(v, lo), range)))

\* A slip: a tie is given the lowest band.
normalize_tie_lowest(names, values, lo, hi) ==
  LET range == RatSub(hi, lo)
  IN  IF range = <<0, 1>>
        THEN [name \in Range(names) |-> 1]
        ELSE [name \in Range(names) |-> band(values[name], lo, range)]

\* The bands of one metric: 5 for every font when the range is 0, the
\* formula otherwise.
normalize(names, values, lo, hi) ==
  LET range == RatSub(hi, lo)
  IN  IF range = <<0, 1>>
        THEN [name \in Range(names) |-> 5]
        ELSE [name \in Range(names) |-> band(values[name], lo, range)]

----------------------------------------------------------------------------
(* Classification records *)

\* Python's None, where a text is expected.
None == <<"None">>

\* A value not yet assigned.
Unset == <<"Unset">>

S_body == <<"b", "o", "d", "y">>
S_header == <<"h", "e", "a", "d", "e", "r">>
S_decorative == <<"d", "e", "c", "o", "r", "a", "t", "i", "v", "e">>
S_latin == <<"l", "a", "t", "i", "n">>

Record(fwe, fia, fwi, usage, subsets) ==
  [weight_int |-> fwe, angle_int |-> fia, width_int |-> fwi, usage |-> usage,
   subsets |-> subsets]

\* The records a run finds in memory when it starts: one of a blocklisted
\* font among them.
InitialStores ==
  { (F_OflRubikBold :> Record(3, 1, 4, S_body, S_latin))
      @@ (F_Arvo :> Record(2, 1, 2, S_header, S_latin)) }

----------------------------------------------------------------------------
(* The classification run: the caller of group_by_attributes, then         *)
(* group_by_attributes itself, one font measured per step                  *)

\* The fonts of the input that are not blocklisted, in the order of the list.
batch_of(s) ==
  LET Keep(f) == f \in s /\ ~is_blocklisted(f)
  IN  SelectSeq(FontFileList, Keep)

\* The freshly computed bands merged into the records: the record of a font
\* with bands gets them, every other record is left as it is.
merge(records, fwe, fwi) ==
  [f \in DOMAIN records \cup DOMAIN fwe |->
     IF f \in DOMAIN fwe
       THEN IF f \in DOMAIN records
              THEN [records[f] EXCEPT !.weight_int = fwe[f], !.width_int = fwi[f]]
              ELSE Record(fwe[f], 0, fwi[f], <<>>, None)
       ELSE records[f]]

\* A slip: the loop over the fonts is left after the first font.
first_measured == i > Minimum(1, Len(fonts))

\* The loop over the fonts has measured every font.
all_measured == i > Len(fonts)

StartRun ==
  /\ pc = "idle"
  /\ \E s \in SUBSET FontFiles :
       /\ Cardinality(s) <= MaxBatch
       /\ input' = s
       /\ fonts' = batch_of(s)
  /\ i' = 1
  /\ pc' = "measure"
  /\ UNCHANGED <<darkness, width, min_dark, max_dark, min_width, max_width,
                 weights, widths, error, metadata>>
  /\ UNCHANGED storeVars

\* One pass of the loop of group_by_attributes: the font is measured, and an
\* exception of compute_darkness_and_width leaves group_by_attributes.
Measure ==
  /\ pc = "measure"
  /\ ~all_measured
  /\ \E r \in Rasters :
       LET m == compute_darkness_and_width(r)
       IN  IF m.raised # "none"
             THEN /\ pc' = "raised"
                  /\ error' = m.raised
                  /\ UNCHANGED <<i, darkness, width>>
             ELSE /\ darkness' = (fonts[i] :> m.darkness) @@ darkness
                  /\ width' = (fonts[i] :> m.width) @@ width
                  /\ i' = i + 1
                  /\ UNCHANGED <<pc, error>>
  /\ UNCHANGED <<input, fonts, min_dark, max_dark, min_width, max_width,
                 weights, widths, metadata>>
  /\ UNCHANGED storeVars

\* "normalize weight values": min() of no values raises ValueError.
NormalizeWeights ==
  /\ pc = "measure"
  /\ all_measured
  /\ IF DOMAIN darkness = {}
       THEN /\ pc' = "raised"
            /\ error' = "ValueError"
            /\ UNCHANGED <<min_dark, max_dark, weights>>
       ELSE LET e == find_extremes(darkness)
            IN  /\ min_dark' = e[1]
                /\ max_dark' = e[2]
                /\ weights' = normalize(fonts, darkness, e[1], e[2])
                /\ pc' = "normalize_width"
                /\ UNCHANGED error
  /\ UNCHANGED <<input, fonts, i, darkness, width, min_width, max_width,
                 widths, metadata>>
  /\ UNCHANGED storeVars

\* "normalize width values", and the return of both dicts.
NormalizeWidths ==
  /\ pc = "normalize_width"
  /\ LET e == find_extremes(width)
     IN  /\ min_width' = e[1]
         /\ max_width' = e[2]
         /\ widths' = normalize(fonts, width, e[1], e[2])
  /\ pc' = "return"
  /\ UNCHANGED <<input, fonts, i, darkness, width, min_dark, max_dark,
                 weights, error, metadata>>
  /\ UNCHANGED storeVars

\* The caller merges the returned bands into the records.
Merge ==
  /\ pc = "return"
  /\ metadata' = merge(metadata, weights, widths)
  /\ pc' = "done"
  /\ UNCHANGED batchVars
  /\ UNCHANGED storeVars

Init ==
  /\ pc = "idle"
  /\ input = {}
  /\ fonts = <<>>
  /\ i = 1
  /\ darkness = EmptyMap
  /\ width = EmptyMap
  /\ min_dark = Unset
  /\ max_dark = Unset
  /\ min_width = Unset
  /\ max_width = Unset
  /\ weights = EmptyMap
  /\ widths = EmptyMap
  /\ error = "none"
  /\ metadata \in InitialStores
  /\ cleanup = FALSE
  /\ written = <<>>
  /\ file = None
  /\ loaded = [status |-> "none"]

Next == StartRun \/ Measure \/ NormalizeWeights \/ NormalizeWidths \/ Merge

Spec == Init /\ [][Next]_vars

----------------------------------------------------------------------------
(* Text: str() and int() of an integer, the order of strings *)

DigitChars == <<"0", "1", "2", "3", "4", "5", "6", "7", "8", "9">>

\* The characters Python's int() strips from both ends.
Whitespace == {" ", "\t", "\n", "\r"}

\* The characters of the model in the order of their code points.
OrderedChars ==
  <<"\t", "\n", "\r", " ", "\"", "+", ",", "-", ".", "/",
    "0", "1", "2", "3", "4", "5", "6", "7", "8", "9",
    "A", "B", "E", "F", "G", "I", "K", "L", "N", "O", "R", "S", "T", "U", "W",
    "_", "a", "b", "c", "d", "e", "f", "g", "h", "i", "k", "l", "m", "n", "o",
    "r", "t", "u", "v", "x", "y">>

CodePoint(c) == CHOOSE k \in DOMAIN OrderedChars : OrderedChars[k] = c

\* a < b on Python strings.
RECURSIVE StrLess(_, _)
StrLess(a, b) ==
  IF b = <<>> THEN FALSE
  ELSE IF a = <<>> THEN TRUE
  ELSE IF Head(a) = Head(b) THEN StrLess(Tail(a), Tail(b))
  ELSE CodePoint(Head(a)) < CodePoint(Head(b))

\* sorted() of a set of strings.
RECURSIVE Sorted(_)
Sorted(S) ==
  IF S = {} THEN <<>>
  ELSE LET least == CHOOSE a \in S : \A b \in S \ {a} : StrLess(a, b)
       IN  <<least>> \o Sorted(S \ {least})

RECURSIVE Digits(_)
Digits(n) ==
  IF n < 10 THEN <<DigitChars[n + 1]>>
  ELSE Digits(n \div 10) \o <<DigitChars[(n % 10) + 1]>>

\* str(n) for an int n.
IntToStr(n) == IF n < 0 THEN <<"-">> \o Digits(-n) ELSE Digits(n)

RECURSIVE Strip(_)
Strip(t) ==
  IF t = <<>> THEN t
  ELSE IF Head(t) \in Whitespace THEN Strip(Tail(t))
  ELSE IF t[Len(t)] \in Whitespace THEN Strip(SubSeq(t, 1, Len(t) - 1))
  ELSE t

IsDigit(c) == c \in Range(DigitChars)

DigitValue(c) == (CHOOSE k \in DOMAIN DigitChars : DigitChars[k] = c) - 1

\* The value of digits that may be grouped by single underscores.
RECURSIVE DigitsValue(_, _)
DigitsValue(t, acc) ==
  IF t = <<>> THEN acc
  ELSE IF Head(t) = "_" THEN DigitsValue(Tail(t), acc)
  ELSE DigitsValue(Tail(t), 10 * acc + DigitValue(Head(t)))

\* int(t) for a string t: the value, or ValueError.  Whitespace around the
\* number, a sign and single underscores between digits are accepted.
ParseInt(t) ==
  LET s == Strip(t)
      signed == s # <<>> /\ Head(s) \in {"+", "-"}
      body == IF signed THEN Tail(s) ELSE s
      wellFormed ==
        /\ body # <<>>
        /\ \A k \in DOMAIN body : IsDigit(body[k]) \/ body[k] = "_"
        /\ IsDigit(body[1]) /\ IsDigit(body[Len(body)])
        /\ \A k \in 1..(Len(body) - 1) : ~(body[k] = "_" /\ body[k + 1] = "_")
  IN  IF ~wellFormed THEN [raised |-> "ValueError"]
      ELSE [raised |-> "none",
            value |-> IF signed /\ Head(s) = "-"
                        THEN -DigitsValue(body, 0) ELSE DigitsValue(body, 0)]

----------------------------------------------------------------------------
(* The csv writer and reader, and the text file between them *)

RECURSIVE Join(_, _)
Join(texts, sep) ==
  IF texts = <<>> THEN <<>>
  ELSE IF Len(texts) = 1 THEN texts[1]
  ELSE texts[1] \o sep \o Join(Tail(texts), sep)

RECURSIVE Concat(_)
Concat(texts) == IF texts = <<>> THEN <<>> ELSE Head(texts) \o Concat(Tail(texts))

RECURSIVE DoubleQuotes(_)
DoubleQuotes(t) ==
  IF t = <<>> THEN <<>>
  ELSE IF Head(t) = "\"" THEN <<"\"", "\"">> \o DoubleQuotes(Tail(t))
  ELSE <<Head(t)>> \o DoubleQuotes(Tail(t))

\* The writer (delimiter ',', quotechar '"', lineterminator '\n', minimal
\* quoting) quotes a field that holds the delimiter, the quote character or a
\* character of the line terminator, and doubles the quotes in it.
QuoteField(t) ==
  IF \E k \in DOMAIN t : t[k] \in {",", "\"", "\n"}
    THEN <<"\"">> \o DoubleQuotes(t) \o <<"\"">>
    ELSE t

\* writer.writerow(row), the fields of the row being texts.
writerow(row) ==
  Join([k \in DOMAIN row |-> QuoteField(row[k])], <<",">>) \o <<"\n">>

\* Reading a file opened in text mode without newline='': "\r\n" and "\r"
\* arrive as "\n".
RECURSIVE UniversalNewlines(_)
UniversalNewlines(t) ==
  IF t = <<>> THEN <<>>
  ELSE IF Head(t) = "\r"
    THEN IF Len(t) > 1 /\ t[2] = "\n"
           THEN <<"\n">> \o UniversalNewlines(Tail(Tail(t)))
           ELSE <<"\n">> \o UniversalNewlines(Tail(t))
  ELSE <<Head(t)>> \o UniversalNewlines(Tail(t))

\* The reader's state machine (delimiter ',', quotechar '"', doubled quotes,
\* not strict) over the text from position k: the rows it yields.
RECURSIVE ParseCsv(_, _, _, _, _, _)
ParseCsv(t, k, state, field, fields, rows) ==
  IF k > Len(t)
    THEN IF state = "START_RECORD" THEN rows
         ELSE Append(rows, Append(fields, field))
  ELSE
    LET c == t[k]
        endRow == ParseCsv(t, k + 1, "START_RECORD", <<>>, <<>>,
                           Append(rows, Append(fields, field)))
        endField == ParseCsv(t, k + 1, "START_FIELD", <<>>,
                             Append(fields, field), rows)
    IN  CASE state = "START_RECORD" /\ c = "\n" ->
               ParseCsv(t, k + 1, "START_RECORD", <<>>, <<>>, Append(rows, <<>>))
          [] state \in {"START_RECORD", "START_FIELD"} /\ c = "\"" ->
               ParseCsv(t, k + 1, "IN_QUOTED_FIELD", field, fields, rows)
          [] state = "IN_QUOTED_FIELD" /\ c = "\"" ->
               ParseCsv(t, k + 1, "QUOTE_IN_QUOTED_FIELD", field, fields, rows)
          [] state = "IN_QUOTED_FIELD" /\ c # "\"" ->
               ParseCsv(t, k + 1, "IN_QUOTED_FIELD", Append(field, c), fields, rows)
          [] state = "QUOTE_IN_QUOTED_FIELD" /\ c = "\"" ->
               ParseCsv(t, k + 1, "IN_QUOTED_FIELD", Append(field, c), fields, rows)
          [] state # "IN_QUOTED_FIELD" /\ c = "," -> endField
          [] state \in {"START_FIELD", "IN_FIELD", "QUOTE_IN_QUOTED_FIELD"}
               /\ c = "\n" -> endRow
          [] OTHER ->
               ParseCsv(t, k + 1, "IN_FIELD", Append(field, c), fields, rows)

\* The rows csv.reader yields for the file.
reader(text) == ParseCsv(UniversalNewlines(text), 1, "START_RECORD", <<>>, <<>>, <<>>)

----------------------------------------------------------------------------
(* save_csv and read_csv *)

S_GFN == <<"G", "F", "N">>
S_FWE == <<"F", "W", "E">>
S_FIA == <<"F", "I", "A">>
S_FWI == <<"F", "W", "I">>
S_USAGE == <<"U", "S", "A", "G", "E">>
S_SUBSETS == <<"S", "U", "B", "S", "E", "T", "S">>

\* A slip: the band itself, not the band less one, is looked up in range(10).
band_kept_off_by_one(v) == v \in 0..9

\* `fwe-1 not in range(10)` blanks the band: it is kept when fwe-1 is in 0..9.
band_kept(v) == (v - 1) \in 0..9

\* `usage not in ['body', 'header']` blanks the usage.
usage_kept(usage) == usage \in {S_body, S_header}

\* The text the writer makes of a field: str() of an int, '' of None.
FieldText(v) == IF v = None THEN <<>> ELSE v

\* The rows save_csv hands to the writer: the header, then one row per
\* record in the order of sorted(metadata.keys()).
save_rows(md, cleanup_for_publishing) ==
  LET keys == Sorted(DOMAIN md)
      header == IF cleanup_for_publishing
                  THEN <<S_GFN, S_FWE, S_FIA, S_FWI, S_USAGE>>
                  ELSE <<S_GFN, S_FWE, S_FIA, S_FWI, S_USAGE, S_SUBSETS>>
      BandText(v) == IF cleanup_for_publishing /\ ~band_kept(v)
                       THEN <<>> ELSE IntToStr(v)
      row(gfn) ==
        LET data == md[gfn]
            usage == IF cleanup_for_publishing /\ ~usage_kept(data.usage)
                       THEN <<>> ELSE data.usage
            cells == <<gfn, BandText(data.weight_int), BandText(data.angle_int),
                       BandText(data.width_int), usage>>
        IN  IF cleanup_for_publishing THEN cells
            ELSE Append(cells, FieldText(data.subsets))
  IN  <<header>> \o [k \in 1..Len(keys) |-> row(keys[k])]

\* The characters the writer puts into the file for the rows.
save_text(rows) == Concat([k \in DOMAIN rows |-> writerow(rows[k])])

\* A slip: a row that cannot be read is passed over.
RECURSIVE read_rows_skipping(_, _, _)
read_rows_skipping(rows, k, md) ==
  IF k > Len(rows) THEN [status |-> "ok", metadata |-> md]
  ELSE
    LET row == rows[k]
    IN  IF Len(row) < 5
             \/ \E j \in 2..4 : ParseInt(row[j]).raised # "none"
          THEN read_rows_skipping(rows, k + 1, md)
          ELSE read_rows_skipping(rows, k + 1,
                 (row[1] :> Record(ParseInt(row[2]).value, ParseInt(row[3]).value,
                                   ParseInt(row[4]).value, row[5],
                                   IF Len(row) < 6 THEN None ELSE row[6]))
                 @@ md)

\* The loop of read_csv over the data rows from row k on: the dict, or the
\* exception that a row raises.
RECURSIVE read_rows(_, _, _)
read_rows(rows, k, md) ==
  IF k > Len(rows) THEN [status |-> "ok", metadata |-> md]
  ELSE
    LET row == rows[k]
        subsets == IF Len(row) < 6 THEN None ELSE row[6]
    IN  IF Len(row) < 2 THEN [status |-> "IndexError"]
        ELSE IF ParseInt(row[2]).raised # "none" THEN [status |-> "ValueError"]
        ELSE IF Len(row) < 3 THEN [status |-> "IndexError"]
        ELSE IF ParseInt(row[3]).raised # "none" THEN [status |-> "ValueError"]
        ELSE IF Len(row) < 4 THEN [status |-> "IndexError"]
        ELSE IF ParseInt(row[4]).raised # "none" THEN [status |-> "ValueError"]
        ELSE IF Len(row) < 5 THEN [status |-> "IndexError"]
        ELSE read_rows(rows, k + 1,
               (row[1] :> Record(ParseInt(row[2]).value, ParseInt(row[3]).value,
                                 ParseInt(row[4]).value, row[5], subsets))
               @@ md)

read_csv_skipping(text) ==
  IF text = None THEN [status |-> "FileNotFoundError"]
  ELSE IF reader(text) = <<>> THEN [status |-> "StopIteration"]
  ELSE read_rows_skipping(reader(text), 2, EmptyMap)

\* read_csv: the first row is skipped, every other row makes a record.
read_csv(text) ==
  IF text = None THEN [status |-> "FileNotFoundError"]
  ELSE IF reader(text) = <<>> THEN [status |-> "StopIteration"]
  ELSE read_rows(reader(text), 2, EmptyMap)

SaveCsv ==
  /\ \E c \in BOOLEAN :
       /\ cleanup' = c
       /\ written' = save_rows(metadata, c)
       /\ file' = save_text(save_rows(metadata, c))
  /\ loaded' = [status |-> "none"]
  /\ UNCHANGED <<pc, metadata>>
  /\ UNCHANGED batchVars

ReadCsv ==
  /\ loaded.status = "none"
  /\ loaded' = read_csv(file)
  /\ UNCHANGED <<pc, metadata, cleanup, written, file>>
  /\ UNCHANGED batchVars

----------------------------------------------------------------------------
(* The records and the files the store is exercised with *)

BandChoices == {-1, 0, 1, 10, 11}

UsageChoices ==
  { <<>>, S_body, S_header, S_decorative,
    <<"a", ",", "\"", "b">>, <<"a", "\n", "b">>, <<"a", "\r", "b">> }

SubsetsChoices == {S_latin, None}

RecordChoices ==
  { Record(fwe, fia, fwi, usage, subsets) :
      fwe \in BandChoices, fia \in BandChoices, fwi \in BandChoices,
      usage \in UsageChoices, subsets \in SubsetsChoices }

K_b == <<"b">>
K_a_comma_b == <<"a", ",", "b">>

MetadataChoices ==
  {EmptyMap}
    \cup { K_b :> r : r \in RecordChoices }
    \cup { (K_b :> r) @@ (K_a_comma_b :> Record(5, 1, 5, S_body, S_latin)) :
           r \in RecordChoices }

\* Band fields of a file written by another hand.
IntegerFields == { <<"7">>, <<" ", "1">>, <<"-", "3">> }
NonIntegerFields == { <<>>, <<"x">>, <<"1", ".", "5">> }
RawFields == IntegerFields \cup NonIntegerFields

GoodRow == <<<<"a">>, <<"1">>, <<"2">>, <<"3">>, S_body, S_latin>>

\* Rows of 4, 5 and 6 fields.
VariedRows ==
  { <<K_b, fwe, fia, fwi>> \o rest :
      fwe \in RawFields, fia \in RawFields, fwi \in RawFields,
      rest \in { <<>>, <<S_header>>, <<S_header, S_latin>> } }

RawText(rows) ==
  Concat([k \in DOMAIN rows |-> Join(rows[k], <<",">>) \o <<"\n">>])

HeaderRow == <<S_GFN, S_FWE, S_FIA, S_FWI, S_USAGE, S_SUBSETS>>

ExternalFiles ==
  { RawText(<<HeaderRow, v>>) : v \in VariedRows }
    \cup { RawText(<<HeaderRow, GoodRow, v>>) : v \in VariedRows }
    \cup { RawText(<<HeaderRow, v, GoodRow>>) : v \in VariedRows }
    \cup { <<>>, RawText(<<HeaderRow, <<>>, GoodRow>>) }

InitStore ==
  /\ pc = "idle"
  /\ input = {}
  /\ fonts = <<>>
  /\ i = 1
  /\ darkness = EmptyMap
  /\ width = EmptyMap
  /\ min_dark = Unset
  /\ max_dark = Unset
  /\ min_width = Unset
  /\ max_width = Unset
  /\ weights = EmptyMap
  /\ widths = EmptyMap
  /\ error = "none"
  /\ cleanup = FALSE
  /\ written = <<>>
  /\ loaded = [status |-> "none"]
  /\ \/ metadata \in MetadataChoices /\ file = None
     \/ metadata = EmptyMap /\ file \in ExternalFiles

NextStore == SaveCsv \/ ReadCsv

SpecStore == InitStore /\ [][NextStore]_vars

----------------------------------------------------------------------------
(* Properties of the classification run *)

\* group_by_attributes has returned its two dicts.
Returned == pc \in {"return", "done"}

Measured == Range(fonts)

DarkTie == \A a, b \in Measured : darkness[a] = darkness[b]
WidthTie == \A a, b \in Measured : width[a] = width[b]

Darkest(f) == \A g \in Measured : RatLeq(darkness[g], darkness[f])
Lightest(f) == \A g \in Measured : RatLeq(darkness[f], darkness[g])
Widest(f) == \A g \in Measured : RatLeq(width[g], width[f])
Narrowest(f) == \A g \in Measured : RatLeq(width[f], width[g])

\* C1: every band group_by_attributes produces, for darkness and for width,
\* is an integer in 1..10, the band of the font at the batch maximum included.
C1_BandsInRange ==
  /\ \A f \in DOMAIN weights : weights[f] \in 1..10
  /\ \A f \in DOMAIN widths : widths[f] \in 1..10
  /\ Returned => DOMAIN weights = Measured /\ DOMAIN widths = Measured

\* The formula gives 11 at the maximum of a batch without a tie, and the
\* returned band is 10.
C1_Witness ==
  /\ Returned
  /\ \E f \in Measured :
       /\ ~DarkTie /\ Darkest(f)
       /\ band_unclamped(darkness[f], min_dark, RatSub(max_dark, min_dark)) = 11
       /\ weights[f] = 10

\* C2: in a batch whose maximum exceeds its minimum on a metric, every font
\* at the minimum gets band 1 and every font at the maximum gets band 10, for
\* darkness and for width.
C2_ExtremesGetEndBands ==
  Returned =>
    /\ ~DarkTie =>
         \A f \in Measured :
           /\ Lightest(f) => weights[f] = 1
           /\ Darkest(f) => weights[f] = 10
    /\ ~WidthTie =>
         \A f \in Measured :
           /\ Narrowest(f) => widths[f] = 1
           /\ Widest(f) => widths[f] = 10

C2_Witness ==
  /\ Returned
  /\ ~DarkTie /\ ~WidthTie
  /\ \E f, g \in Measured :
       /\ Lightest(f) /\ Widest(f) /\ weights[f] = 1 /\ widths[f] = 10
       /\ Darkest(g) /\ Narrowest(g) /\ weights[g] = 10 /\ widths[g] = 1

\* C3: within one call a font with a smaller darkness never gets a larger
\* weight band, and a font with a smaller width never a larger width band.
C3_Monotonic ==
  Returned =>
    \A a, b \in Measured :
      /\ RatLess(darkness[a], darkness[b]) => weights[a] <= weights[b]
      /\ RatLess(width[a], width[b]) => widths[a] <= widths[b]

\* Three fonts of three different values, the middle one in a band strictly
\* between the other two, on both metrics.
C3_Witness ==
  /\ Returned
  /\ \E a, b, c \in Measured :
       /\ RatLess(darkness[a], darkness[b]) /\ RatLess(darkness[b], darkness[c])
       /\ weights[a] < weights[b] /\ weights[b] < weights[c]
       /\ RatLess(width[c], width[b]) /\ RatLess(width[b], width[a])
       /\ widths[c] < widths[b] /\ widths[b] < widths[a]

\* C4: a tie of all fonts on a metric (a batch of one font included) gives
\* every font band 5 on that metric and raises nothing; the two metrics are
\* decided apart, so the other metric still gets the bands of the formula.
C4_TieGetsFive ==
  /\ Returned =>
       /\ DarkTie => \A f \in Measured : weights[f] = 5
       /\ WidthTie => \A f \in Measured : widths[f] = 5
       /\ DarkTie /\ ~WidthTie =>
            \A f \in Measured : widths[f] = band(width[f], min_width, RatSub(max_width, min_width))
       /\ WidthTie /\ ~DarkTie =>
            \A f \in Measured : weights[f] = band(darkness[f], min_dark, RatSub(max_dark, min_dark))
  \* once every font is measured, only the empty batch raises
  /\ pc = "raised" /\ DOMAIN darkness = Measured => fonts = <<>>

\* A batch of several fonts that tie on darkness and differ in width.
C4_Witness ==
  /\ Returned
  /\ Cardinality(Measured) > 1
  /\ DarkTie /\ ~WidthTie
  /\ \A f \in Measured : weights[f] = 5
  /\ \E f \in Measured : widths[f] = 10

\* C8: a failure while measuring one font is fatal for that font only: when
\* the run has ended the measuring loop has reached the last font of the
\* batch, and every font whose measurement succeeded has its bands.
C8_FailureSkipsOnlyThatFont ==
  pc \in {"raised", "done"} =>
    /\ i >= Len(fonts)
    /\ DOMAIN darkness \subseteq DOMAIN weights

\* The file name contains a BLOCKLIST entry as a substring.
ContainsBlocklistEntry(f) == \E k \in DOMAIN BLOCKLIST : StrIn(BLOCKLIST[k], f)

C10_NormalizeAfterAllMeasured ==
  /\ pc = "measure" =>
       /\ i \in 1..(Len(fonts) + 1)
       /\ DOMAIN darkness = {fonts[k] : k \in 1..(i - 1)}
       /\ DOMAIN width = {fonts[k] : k \in 1..(i - 1)}
       /\ weights = EmptyMap /\ widths = EmptyMap
  /\ weights # EmptyMap \/ widths # EmptyMap =>
       DOMAIN darkness = Measured /\ DOMAIN width = Measured
  /\ weights # EmptyMap =>
       /\ \A f \in Measured : RatLeq(min_dark, darkness[f]) /\ RatLeq(darkness[f], max_dark)
       /\ \E f, g \in Measured : darkness[f] = min_dark /\ darkness[g] = max_dark
  /\ widths # EmptyMap =>
       /\ \A f \in Measured : RatLeq(min_width, width[f]) /\ RatLeq(width[f], max_width)
       /\ \E f, g \in Measured : width[f] = min_width /\ width[g] = max_width

\* The bands of a batch of three fonts whose extremes were measured last.
C10_Witness ==
  /\ Returned
  /\ Len(fonts) = 3
  /\ darkness[fonts[3]] = max_dark /\ darkness[fonts[2]] = min_dark
  /\ RatLess(min_dark, darkness[fonts[1]]) /\ RatLess(darkness[fonts[1]], max_dark)
  /\ weights[fonts[1]] \in 2..9

----------------------------------------------------------------------------
(* Properties of the store *)

\* The file holds what save_csv wrote, without cleanup, and has been read.
ReadBackPlainSave == loaded.status # "none" /\ written # <<>> /\ ~cleanup

SameBandsAndUsage ==
  /\ loaded.status = "ok"
  /\ DOMAIN loaded.metadata = DOMAIN metadata
  /\ \A gfn \in DOMAIN metadata :
       /\ loaded.metadata[gfn].weight_int = metadata[gfn].weight_int
       /\ loaded.metadata[gfn].angle_int = metadata[gfn].angle_int
       /\ loaded.metadata[gfn].width_int = metadata[gfn].width_int
       /\ loaded.metadata[gfn].usage = metadata[gfn].usage

\* C5: save_csv without cleanup followed by read_csv of the file yields the
\* same font identifiers and, for each, the same three bands and usage tag.
C5_RoundTrip == ReadBackPlainSave => SameBandsAndUsage

HasCarriageReturn(t) == \E k \in DOMAIN t : t[k] = "\r"

\* The round trip of records whose identifiers and usage tags hold no
\* carriage return.
RoundTripWithoutCarriageReturn ==
  /\ ReadBackPlainSave
  /\ \A gfn \in DOMAIN metadata :
       ~HasCarriageReturn(gfn) /\ ~HasCarriageReturn(metadata[gfn].usage)
  => SameBandsAndUsage

\* C6: with cleanup every band is written as it is exactly when it is in
\* 1..10 and blank otherwise, the usage as it is exactly when it is body or
\* header and blank otherwise, each field decided by itself, and neither the
\* header nor a row has a SUBSETS field.
C6_CleanupRedacts ==
  cleanup /\ written # <<>> =>
    /\ written[1] = <<S_GFN, S_FWE, S_FIA, S_FWI, S_USAGE>>
    /\ Len(written) = 1 + Cardinality(DOMAIN metadata)
    /\ {written[k][1] : k \in 2..Len(written)} = DOMAIN metadata
    /\ \A k \in 2..Len(written) :
         LET row == written[k]
             data == metadata[row[1]]
             Expected(v) == IF v \in 1..10 THEN IntToStr(v) ELSE <<>>
         IN  /\ Len(row) = 5
             /\ row[2] = Expected(data.weight_int)
             /\ row[3] = Expected(data.angle_int)
             /\ row[4] = Expected(data.width_int)
             /\ row[5] = IF data.usage \in {S_body, S_header}
                           THEN data.usage ELSE <<>>
    /\ reader(file) = written

\* A record with bands 0, 11 and 10 and the usage decorative has been written
\* with cleanup: only the band 10 is left.
C6_Witness ==
  /\ cleanup
  /\ K_b \in DOMAIN metadata
  /\ metadata[K_b].weight_int = 0
  /\ metadata[K_b].angle_int = 11
  /\ metadata[K_b].width_int = 10
  /\ metadata[K_b].usage = S_decorative
  /\ \E k \in 2..Len(written) : written[k] = <<K_b, <<>>, <<>>, <<"1", "0">>, <<>>>>

\* The data rows of a file that has a first row.
HasHeader == file # None /\ reader(file) # <<>>
DataRows == Range(Tail(reader(file)))

BandFields(row) == {row[k] : k \in 2..Minimum(4, Len(row))}

\* The band fields of the model's files are integers or are in
\* NonIntegerFields.
SomeBandNotInteger == \E row \in DataRows : BandFields(row) \cap NonIntegerFields # {}

LoadFailed == loaded.status \notin {"none", "ok"} /\ "metadata" \notin DOMAIN loaded

\* The rows of fewer than 6 fields were read with subsets absent.
ShortRowsWithoutSubsets ==
  /\ loaded.status = "ok"
  /\ \A row \in DataRows :
       /\ row[1] \in DOMAIN loaded.metadata
       /\ Len(row) < 6 => loaded.metadata[row[1]].subsets = None

\* C7 as claimed: a band field that is not an integer fails the whole load,
\* and rows of fewer than 6 fields with integer bands load with subsets
\* absent.
C7_AsClaimed ==
  loaded.status # "none" /\ HasHeader =>
    /\ SomeBandNotInteger => LoadFailed
    /\ (\A row \in DataRows : Len(row) >= 4) /\ ~SomeBandNotInteger =>
         ShortRowsWithoutSubsets

\* C7: a band field that is not an integer, an empty one included, fails the
\* whole load with no mapping returned; rows of exactly 5 fields with integer
\* bands load with subsets absent, and a row of fewer than 5 fields fails the
\* load.
C7_MalformedBandFailsLoad ==
  loaded.status # "none" /\ HasHeader =>
    /\ SomeBandNotInteger => LoadFailed
    /\ (\A row \in DataRows : Len(row) >= 5) /\ ~SomeBandNotInteger =>
         ShortRowsWithoutSubsets
    /\ (\E row \in DataRows : Len(row) < 5) => LoadFailed

\* The load failed on an empty band in the second data row, after a first
\* data row that could be read.
C7_Witness ==
  /\ loaded.status = "ValueError"
  /\ HasHeader
  /\ Len(reader(file)) = 3
  /\ reader(file)[2] = GoodRow
  /\ reader(file)[3][3] = <<>>
  /\ Len(reader(file)[3]) = 5

====
